---- MODULE Spec2Model ----
(***************************************************************************)
(* Model of scripts/gen_inventory_from_tf.py: main() loads the provisioning *)
(* outputs, build_hosts() turns them into hosts, groups and warnings, and  *)
(* write_inventory() persists the inventory.  One run of main() is one     *)
(* behaviour; the input document is chosen when load_outputs reads it.     *)
(***************************************************************************)
EXTENDS Integers, Sequences, FiniteSets, TLC

VARIABLES pc, outputs, cp_names, cp_ips, worker_names, worker_ips,
          bastion_priv, bastion_pub, i, cp_hosts, worker_hosts, hosts,
          groups, warnings, out_file, writes, console, exit_code

vars == <<pc, outputs, cp_names, cp_ips, worker_names, worker_ips,
          bastion_priv, bastion_pub, i, cp_hosts, worker_hosts, hosts,
          groups, warnings, out_file, writes, console, exit_code>>

(***************************************************************************)
(* Bounds on the input documents.                                          *)
(***************************************************************************)
MaxNames == 2
MaxIps == 3
MaxBastion == 2

(***************************************************************************)
(* JSON / Python values.  None and JSON null are the same value.           *)
(***************************************************************************)
Null == [t |-> "null"]
Str(s) == [t |-> "str", s |-> s]
Num(n) == [t |-> "num", n |-> n]
List(l) == [t |-> "list", l |-> l]
Obj(v) == [t |-> "obj", value |-> v]

IsStr(v) == v.t = "str"
IsList(v) == v.t = "list"

\* The characters of the scalar strings the input documents use.
StrChars(s) ==
  CASE s = "3.3.3.3" -> <<"3", ".", "3", ".", "3", ".", "3">>
    [] s = "10.0.0.9" -> <<"1", "0", ".", "0", ".", "0", ".", "9">>
    [] OTHER -> <<>>

\* Python truthiness: None, "", [] and 0 are false.
Truthy(v) ==
  CASE v.t = "str" -> v.s # ""
    [] v.t = "list" -> v.l # <<>>
    [] v.t = "num" -> v.n # 0
    [] v.t = "obj" -> TRUE
    [] OTHER -> FALSE

\* len(v) of a list or of a string.
PyLen(v) == IF IsList(v) THEN Len(v.l) ELSE Len(StrChars(v.s))

\* v[k], k counted from 0: a list's entry, or a string's k-th character.
PyIndex(v, k) == IF IsList(v) THEN v.l[k + 1] ELSE Str(StrChars(v.s)[k + 1])

Max(a, b) == IF a >= b THEN a ELSE b

EmptyDict == [n \in {} |-> Null]
Put(d, k, v) == [n \in DOMAIN d \cup {k} |-> IF n = k THEN v ELSE d[n]]
\* dict.update(e): the entries of e replace those of d.
Update(d, e) == [n \in DOMAIN d \cup DOMAIN e |-> IF n \in DOMAIN e THEN e[n] ELSE d[n]]

(***************************************************************************)
(* Command line (argparse defaults, the key path tilde-expanded).          *)
(***************************************************************************)
ssh_user == "ubuntu"
ssh_key == "/home/ubuntu/.ssh/id_rsa"
out_path == "/work/inventory/mycluster/hosts.yaml"

NotExited == -1

(***************************************************************************)
(* load_outputs: one level of {"value": ...} envelope is unwrapped.        *)
(***************************************************************************)
Unwrap(v) == IF v.t = "obj" /\ "value" \in DOMAIN v THEN v.value ELSE v

load_outputs(data) == [k \in DOMAIN data |-> Unwrap(data[k])]

(***************************************************************************)
(* pick: the value under the first candidate that is a key, else None.     *)
(***************************************************************************)
\* The same with the last candidate that is a key winning.
RECURSIVE pickLast(_, _)
pickLast(outs, candidates) ==
  IF candidates = <<>> THEN Null
  ELSE IF candidates[Len(candidates)] \in DOMAIN outs THEN outs[candidates[Len(candidates)]]
  ELSE pickLast(outs, SubSeq(candidates, 1, Len(candidates) - 1))

RECURSIVE pick(_, _)
pick(outs, candidates) ==
  IF candidates = <<>> THEN Null
  ELSE IF Head(candidates) \in DOMAIN outs THEN outs[Head(candidates)]
  ELSE pick(outs, Tail(candidates))

CpNameKeys == <<"control_plane_names", "control_plane_node_names", "cp_names">>
CpIpKeys == <<"control_plane_ips", "control_plane_private_ips", "cp_ips",
              "control_plane_private_ips">>
WorkerNameKeys == <<"worker_names", "worker_node_names", "worker_node_names">>
WorkerIpKeys == <<"worker_ips", "worker_private_ips", "worker_ips">>
BastionPrivKeys == <<"bastion_private_ip", "bastion_private_ips">>
BastionPubKeys == <<"bastion_public_ip", "bastion_public_ips">>

CountWarning == "control_plane_ips missing but control_plane_count present"

(***************************************************************************)
(* add_group: the pieces of one loop iteration.                            *)
(***************************************************************************)
GroupCount(names, ips) ==
  Max(IF Truthy(names) THEN PyLen(names) ELSE 0,
      IF Truthy(ips) THEN PyLen(ips) ELSE 0)

\* The same with the synthesized number counted from 0.
HostNameFromZero(names, prefix, k) ==
  IF Truthy(names) /\ k < PyLen(names)
  THEN PyIndex(names, k).s
  ELSE prefix \o "-" \o ToString(k)

\* k is the 0-based loop index.
HostName(names, prefix, k) ==
  IF Truthy(names) /\ k < PyLen(names)
  THEN PyIndex(names, k).s
  ELSE prefix \o "-" \o ToString(k + 1)

HostIp(ips, k) == IF Truthy(ips) /\ k < PyLen(ips) THEN PyIndex(ips, k) ELSE Null

MissingIpWarning(name) == "Missing IP for host " \o name

Host(ip) ==
  [ansible_host |-> ip, ip |-> ip, ansible_user |-> ssh_user,
   ansible_ssh_private_key_file |-> ssh_key]

BastionHost(ip, access) ==
  [ansible_host |-> ip, ip |-> ip, access_ip |-> access,
   ansible_user |-> ssh_user, ansible_ssh_private_key_file |-> ssh_key]

BastionName(idx) == "bastion-" \o ToString(idx)

\* access_ip of the idx-th (1-based) bastion of a list-valued bastion_priv.
BastionListAccess(pub, idx) ==
  IF Truthy(pub) /\ idx - 1 < PyLen(pub) THEN PyIndex(pub, idx - 1) ELSE Null

\* access_ip of the single bastion of a scalar bastion_priv.
BastionScalarAccess(pub) ==
  IF IsStr(pub) THEN pub
  ELSE IF Truthy(pub) THEN PyIndex(pub, 0) ELSE Null

\* The same with the earlier role keeping a name (setdefault, not update).
MergeHostsFirstWins(h, cp, wk) == Update(wk, Update(cp, h))

\* hosts.update(cp_hosts); hosts.update(worker_hosts)
MergeHosts(h, cp, wk) == Update(Update(h, cp), wk)

\* The same with etcd taken from the workers.
BuildGroupsEtcdFromWorkers(cp, wk) ==
  LET g1 == IF DOMAIN cp # {}
            THEN Put(EmptyDict, "kube_control_plane", [hosts |-> DOMAIN cp])
            ELSE EmptyDict
      g2 == IF DOMAIN wk # {} THEN Put(g1, "kube_node", [hosts |-> DOMAIN wk]) ELSE g1
      g3 == IF DOMAIN wk # {} THEN Put(g2, "etcd", [hosts |-> DOMAIN wk]) ELSE g2
      ch == (IF "kube_control_plane" \in DOMAIN g3 THEN {"kube_control_plane"} ELSE {})
            \cup (IF "kube_node" \in DOMAIN g3 THEN {"kube_node"} ELSE {})
  IN Put(g3, "k8s_cluster", [children |-> ch])

\* The same with k8s_cluster left out when it would have no children.
BuildGroupsClusterIfChildren(cp, wk) ==
  LET g1 == IF DOMAIN cp # {}
            THEN Put(EmptyDict, "kube_control_plane", [hosts |-> DOMAIN cp])
            ELSE EmptyDict
      g2 == IF DOMAIN wk # {} THEN Put(g1, "kube_node", [hosts |-> DOMAIN wk]) ELSE g1
      g3 == IF DOMAIN cp # {} THEN Put(g2, "etcd", [hosts |-> DOMAIN cp]) ELSE g2
      ch == (IF "kube_control_plane" \in DOMAIN g3 THEN {"kube_control_plane"} ELSE {})
            \cup (IF "kube_node" \in DOMAIN g3 THEN {"kube_node"} ELSE {})
  IN IF ch = {} THEN g3 ELSE Put(g3, "k8s_cluster", [children |-> ch])

BuildGroups(cp, wk) ==
  LET g1 == IF DOMAIN cp # {}
            THEN Put(EmptyDict, "kube_control_plane", [hosts |-> DOMAIN cp])
            ELSE EmptyDict
      g2 == IF DOMAIN wk # {} THEN Put(g1, "kube_node", [hosts |-> DOMAIN wk]) ELSE g1
      g3 == IF DOMAIN cp # {} THEN Put(g2, "etcd", [hosts |-> DOMAIN cp]) ELSE g2
      ch == (IF "kube_control_plane" \in DOMAIN g3 THEN {"kube_control_plane"} ELSE {})
            \cup (IF "kube_node" \in DOMAIN g3 THEN {"kube_node"} ELSE {})
  IN Put(g3, "k8s_cluster", [children |-> ch])

Inventory(h, g) == [all |-> [hosts |-> h, children |-> g]]

(***************************************************************************)
(* The input documents main() is run on.  A document is what json.load     *)
(* returns: a mapping from some of the keys to values, every value either  *)
(* bare or wrapped in a {"value": ...} envelope.                           *)
(***************************************************************************)
Absent == [t |-> "absent"]

Keys ==
  {"control_plane_names", "control_plane_node_names", "cp_names",
   "control_plane_ips", "control_plane_private_ips", "cp_ips",
   "worker_names", "worker_node_names", "worker_ips", "worker_private_ips",
   "bastion_private_ip", "bastion_private_ips",
   "bastion_public_ip", "bastion_public_ips", "control_plane_count"}

NoKeys == [k \in Keys |-> Absent]
With(a, k, v) == [a EXCEPT ![k] = v]

SeqsUpTo(S, n) == UNION {[1..m -> S] : m \in 0..n}

\* Address lists: the entry at position j is the address ipPrefix.j or null.
IpLists(ipPrefix, n) ==
  UNION {{[j \in 1..m |-> IF j \in P THEN Str(ipPrefix \o ToString(j)) ELSE Null] :
            P \in SUBSET (1..m)} : m \in 0..n}

\* Names a names list may hold: an ordinary one, one that a bastion also
\* gets, and one that the role's own synthesis produces for its second host.
NamePool(prefix) == {Str("node-a"), Str("bastion-1"), Str(prefix \o "-2")}

NameOpts(prefix) == {Absent, Null} \cup {List(l) : l \in SeqsUpTo(NamePool(prefix), MaxNames)}
IpOpts(ipPrefix) == {Absent, Null} \cup {List(l) : l \in IpLists(ipPrefix, MaxIps)}

BastionOpts(scalar, ipPrefix) ==
  {Absent, Null, Str(scalar)} \cup {List(l) : l \in IpLists(ipPrefix, MaxBastion)}

\* Scalars come under the singular key, lists under the plural one.
BastionKey(singular, v) == IF IsList(v) THEN singular \o "s" ELSE singular

\* A role given in one of a few plain ways, under its primary keys.
PlainRole(namesKey, ipsKey, ipPrefix) ==
  {NoKeys,
   With(NoKeys, namesKey, List(<<Str("node-a")>>)),
   With(NoKeys, ipsKey, List(<<Str(ipPrefix \o "1")>>)),
   With(With(NoKeys, namesKey, List(<<Str("bastion-1")>>)),
        ipsKey, List(<<Str(ipPrefix \o "1")>>))}

PlainBastion ==
  {NoKeys, With(NoKeys, "bastion_private_ips", List(<<Str("10.0.0.1")>>))}

\* a overridden by the keys b sets.
Over(a, b) == [k \in Keys |-> IF b[k] # Absent THEN b[k] ELSE a[k]]

\* What accompanies a varied role: nothing, a bastion, the other role, or
\* the other role under a bastion's name together with that bastion.
Company(namesKey, ipsKey, ipPrefix) ==
  {NoKeys,
   With(NoKeys, "bastion_private_ips", List(<<Str("10.0.0.1")>>)),
   With(NoKeys, ipsKey, List(<<Str(ipPrefix \o "1")>>)),
   With(With(With(NoKeys, namesKey, List(<<Str("bastion-1")>>)),
             ipsKey, List(<<Str(ipPrefix \o "1")>>)),
        "bastion_private_ips", List(<<Str("10.0.0.1")>>))}

\* One role varied over every names list and address list.
RoleDocs(namesKey, ipsKey, prefix, ipPrefix, others) ==
  {Over(o, With(With(NoKeys, namesKey, n), ipsKey, p)) :
     n \in NameOpts(prefix), p \in IpOpts(ipPrefix), o \in others}

\* The address list of n entries, none null.
FullIps(ipPrefix, n) == List([j \in 1..n |-> Str(ipPrefix \o ToString(j))])

\* Both roles varied over every names list, each with all its addresses.
CrossDocs ==
  {Over(b, With(With(With(With(NoKeys, "control_plane_names", n), "worker_names", m),
                     "control_plane_ips", FullIps("10.0.1.", MaxNames)),
                "worker_ips", FullIps("10.0.2.", MaxNames))) :
     n \in NameOpts("k8s-cp"), m \in NameOpts("k8s-worker"), b \in PlainBastion}

\* The bastion varied over every private and public value, the roles plain.
BastionDocs ==
  {Over(With(With(NoKeys, BastionKey("bastion_private_ip", v), v),
             BastionKey("bastion_public_ip", u), u), r) :
     v \in BastionOpts("10.0.0.9", "10.0.0."),
     u \in BastionOpts("3.3.3.3", "3.3.3."),
     r \in PlainRole("control_plane_names", "control_plane_ips", "10.0.1.")
           \cup {With(With(NoKeys, "worker_names", List(<<Str("bastion-1")>>)),
                      "worker_ips", List(<<Str("10.0.2.1")>>))}}

\* The value an alias key carries when the aliases of one input are varied.
AliasValue(k) ==
  CASE k = "bastion_private_ip" -> Str("10.0.0.9")
    [] k = "bastion_public_ip" -> Str("3.3.3.3")
    [] k \in {"control_plane_names", "control_plane_node_names", "cp_names",
              "worker_names", "worker_node_names"} -> List(<<Str("name-of-" \o k)>>)
    [] OTHER -> List(<<Str("ip-of-" \o k)>>)

AliasBase ==
  With(With(With(NoKeys, "control_plane_ips", List(<<Str("10.0.1.1")>>)),
            "worker_ips", List(<<Str("10.0.2.1")>>)),
       "bastion_private_ip", Str("10.0.0.9"))

AliasGroups ==
  {{"control_plane_names", "control_plane_node_names", "cp_names"},
   {"control_plane_ips", "control_plane_private_ips", "cp_ips"},
   {"worker_names", "worker_node_names"},
   {"worker_ips", "worker_private_ips"},
   {"bastion_private_ip", "bastion_private_ips"},
   {"bastion_public_ip", "bastion_public_ips"}}

\* The aliases of one input each absent, null or set; with or without a count.
AliasDocs ==
  UNION {{[k \in Keys |->
             IF k \in G THEN (IF c[k] = "set" THEN AliasValue(k)
                              ELSE IF c[k] = "null" THEN Null ELSE Absent)
             ELSE IF k = "control_plane_count" THEN n
             ELSE AliasBase[k]] :
            c \in [G -> {"absent", "null", "set"}], n \in {Absent, Num(3)}} :
         G \in AliasGroups}

\* Only a declared count and no address keys at all.
CountOnlyDocs == {With(NoKeys, "control_plane_count", Num(3))}

Assignments ==
  CountOnlyDocs
  \cup RoleDocs("control_plane_names", "control_plane_ips", "k8s-cp", "10.0.1.",
           Company("worker_names", "worker_ips", "10.0.2."))
  \cup RoleDocs("worker_names", "worker_ips", "k8s-worker", "10.0.2.",
                Company("control_plane_names", "control_plane_ips", "10.0.1."))
  \cup CrossDocs
  \cup BastionDocs
  \cup AliasDocs

Present(a) == {k \in Keys : a[k] # Absent}
BareDoc(a) == [k \in Present(a) |-> a[k]]
WrappedDoc(a) == [k \in Present(a) |-> Obj(a[k])]

Documents == {BareDoc(a) : a \in Assignments} \cup {WrappedDoc(a) : a \in Assignments}

(***************************************************************************)
(* State machine of one run of main().                                     *)
(***************************************************************************)
Init ==
  /\ pc = "start"
  /\ outputs = EmptyDict
  /\ cp_names = Null /\ cp_ips = Null
  /\ worker_names = Null /\ worker_ips = Null
  /\ bastion_priv = Null /\ bastion_pub = Null
  /\ i = 0
  /\ cp_hosts = EmptyDict /\ worker_hosts = EmptyDict /\ hosts = EmptyDict
  /\ groups = EmptyDict
  /\ warnings = <<>>
  /\ out_file = Null
  /\ writes = 0
  /\ console = <<>>
  /\ exit_code = NotExited

resolved == <<cp_names, cp_ips, worker_names, worker_ips, bastion_priv, bastion_pub>>
built == <<cp_hosts, worker_hosts, hosts, groups, warnings>>
outside == <<out_file, writes, console, exit_code>>

\* load_outputs succeeds on a well-formed document.
LoadOutputs ==
  /\ pc = "start"
  /\ \E data \in Documents : outputs' = load_outputs(data)
  /\ pc' = "resolve"
  /\ UNCHANGED <<resolved, i, built, outside>>

\* The path does not exist or the document is malformed: open/json.load
\* raise, nothing catches it, the interpreter exits with status 1.
LoadError ==
  /\ pc = "start"
  /\ pc' = "load_error"
  /\ exit_code' = 1
  /\ UNCHANGED <<outputs, resolved, i, built, out_file, writes, console>>

\* build_hosts, lines 48-63: the six lookups and the count warning.
Resolve ==
  /\ pc = "resolve"
  /\ cp_names' = pick(outputs, CpNameKeys)
  /\ cp_ips' = pick(outputs, CpIpKeys)
  /\ warnings' = IF pick(outputs, CpIpKeys) = Null /\ "control_plane_count" \in DOMAIN outputs
                 THEN Append(warnings, CountWarning) ELSE warnings
  /\ worker_names' = pick(outputs, WorkerNameKeys)
  /\ worker_ips' = pick(outputs, WorkerIpKeys)
  /\ bastion_priv' = pick(outputs, BastionPrivKeys)
  /\ bastion_pub' = pick(outputs, BastionPubKeys)
  /\ pc' = "cp"
  /\ i' = 0
  /\ UNCHANGED <<outputs, cp_hosts, worker_hosts, hosts, groups, outside>>

\* add_group(names, ips, prefix, group_hosts) called at `at`, returning to
\* `next`; group_hosts is gh, its next value ghNext.
AddGroupSkip(at, next, names, ips, gh, ghNext) ==
  /\ pc = at
  /\ names = Null /\ ips = Null
  /\ pc' = next
  /\ i' = 0
  /\ ghNext = gh
  /\ UNCHANGED warnings

\* The same without the `continue`: the host is stored with its null address.
AddGroupMissingNoContinue(at, names, ips, prefix, gh, ghNext) ==
  /\ pc = at
  /\ ~(names = Null /\ ips = Null)
  /\ i < GroupCount(names, ips)
  /\ HostIp(ips, i) = Null
  /\ warnings' = Append(warnings, MissingIpWarning(HostName(names, prefix, i)))
  /\ ghNext = Put(gh, HostName(names, prefix, i), Host(HostIp(ips, i)))
  /\ i' = i + 1
  /\ UNCHANGED pc

AddGroupMissing(at, names, ips, prefix, gh, ghNext) ==
  /\ pc = at
  /\ ~(names = Null /\ ips = Null)
  /\ i < GroupCount(names, ips)
  /\ HostIp(ips, i) = Null
  /\ warnings' = Append(warnings, MissingIpWarning(HostName(names, prefix, i)))
  /\ ghNext = gh
  /\ i' = i + 1
  /\ UNCHANGED pc

AddGroupHost(at, names, ips, prefix, gh, ghNext) ==
  /\ pc = at
  /\ ~(names = Null /\ ips = Null)
  /\ i < GroupCount(names, ips)
  /\ HostIp(ips, i) # Null
  /\ ghNext = Put(gh, HostName(names, prefix, i), Host(HostIp(ips, i)))
  /\ i' = i + 1
  /\ UNCHANGED <<pc, warnings>>

AddGroupReturn(at, next, names, ips, gh, ghNext) ==
  /\ pc = at
  /\ ~(names = Null /\ ips = Null)
  /\ i = GroupCount(names, ips)
  /\ pc' = next
  /\ i' = 0
  /\ ghNext = gh
  /\ UNCHANGED warnings

CpOthers == <<outputs, resolved, worker_hosts, hosts, groups, outside>>
WorkerOthers == <<outputs, resolved, cp_hosts, hosts, groups, outside>>

\* add_group(cp_names, cp_ips, 'k8s-cp', cp_hosts)
CpSkip ==
  /\ AddGroupSkip("cp", "worker", cp_names, cp_ips, cp_hosts, cp_hosts')
  /\ UNCHANGED CpOthers

CpMissing ==
  /\ AddGroupMissing("cp", cp_names, cp_ips, "k8s-cp", cp_hosts, cp_hosts')
  /\ UNCHANGED CpOthers

CpHost ==
  /\ AddGroupHost("cp", cp_names, cp_ips, "k8s-cp", cp_hosts, cp_hosts')
  /\ UNCHANGED CpOthers

CpReturn ==
  /\ AddGroupReturn("cp", "worker", cp_names, cp_ips, cp_hosts, cp_hosts')
  /\ UNCHANGED CpOthers

\* add_group(worker_names, worker_ips, 'k8s-worker', worker_hosts)
WorkerSkip ==
  /\ AddGroupSkip("worker", "bastion", worker_names, worker_ips, worker_hosts, worker_hosts')
  /\ UNCHANGED WorkerOthers

WorkerMissing ==
  /\ AddGroupMissing("worker", worker_names, worker_ips, "k8s-worker", worker_hosts, worker_hosts')
  /\ UNCHANGED WorkerOthers

WorkerHost ==
  /\ AddGroupHost("worker", worker_names, worker_ips, "k8s-worker", worker_hosts, worker_hosts')
  /\ UNCHANGED WorkerOthers

WorkerReturn ==
  /\ AddGroupReturn("worker", "bastion", worker_names, worker_ips, worker_hosts, worker_hosts')
  /\ UNCHANGED WorkerOthers

\* if bastion_priv: is false.
BastionNone ==
  /\ pc = "bastion"
  /\ ~Truthy(bastion_priv)
  /\ pc' = "merge"
  /\ UNCHANGED <<outputs, resolved, i, built, outside>>

\* One iteration of: for idx, ip in enumerate(bastion_priv, 1).
BastionListEntry ==
  /\ pc = "bastion"
  /\ Truthy(bastion_priv) /\ IsList(bastion_priv)
  /\ i < PyLen(bastion_priv)
  /\ hosts' = Put(hosts, BastionName(i + 1),
                  BastionHost(PyIndex(bastion_priv, i), BastionListAccess(bastion_pub, i + 1)))
  /\ i' = i + 1
  /\ UNCHANGED <<pc, outputs, resolved, cp_hosts, worker_hosts, groups, warnings, outside>>

BastionListDone ==
  /\ pc = "bastion"
  /\ Truthy(bastion_priv) /\ IsList(bastion_priv)
  /\ i = PyLen(bastion_priv)
  /\ pc' = "merge"
  /\ i' = 0
  /\ UNCHANGED <<outputs, resolved, built, outside>>

BastionScalar ==
  /\ pc = "bastion"
  /\ Truthy(bastion_priv) /\ ~IsList(bastion_priv)
  /\ hosts' = Put(hosts, "bastion-1",
                  BastionHost(bastion_priv, BastionScalarAccess(bastion_pub)))
  /\ pc' = "merge"
  /\ UNCHANGED <<outputs, resolved, i, cp_hosts, worker_hosts, groups, warnings, outside>>

Merge ==
  /\ pc = "merge"
  /\ hosts' = MergeHosts(hosts, cp_hosts, worker_hosts)
  /\ pc' = "groups"
  /\ UNCHANGED <<outputs, resolved, i, cp_hosts, worker_hosts, groups, warnings, outside>>

\* Lines 113-128: the groups, and the return to main.
Groups ==
  /\ pc = "groups"
  /\ groups' = BuildGroups(cp_hosts, worker_hosts)
  /\ pc' = "returned"
  /\ UNCHANGED <<outputs, resolved, i, cp_hosts, worker_hosts, hosts, warnings, outside>>

\* main: if not hosts: print(...); sys.exit(2)
NoHosts ==
  /\ pc = "returned"
  /\ DOMAIN hosts = {}
  /\ console' = Append(console, "No hosts discovered in outputs. Check your outputs JSON for control_plane/_worker/bastion keys.")
  /\ exit_code' = 2
  /\ pc' = "exited"
  /\ UNCHANGED <<outputs, resolved, i, built, out_file, writes>>

\* The same without the `if not hosts` exit before it.
WriteInventoryEvenIfEmpty ==
  /\ pc = "returned"
  /\ out_file' = Inventory(hosts, groups)
  /\ writes' = writes + 1
  /\ pc' = "written"
  /\ UNCHANGED <<outputs, resolved, i, built, console, exit_code>>

WriteInventory ==
  /\ pc = "returned"
  /\ DOMAIN hosts # {}
  /\ out_file' = Inventory(hosts, groups)
  /\ writes' = writes + 1
  /\ pc' = "written"
  /\ UNCHANGED <<outputs, resolved, i, built, console, exit_code>>

\* makedirs or open raises: nothing is written, the exception is uncaught.
WriteError ==
  /\ pc = "returned"
  /\ DOMAIN hosts # {}
  /\ pc' = "write_error"
  /\ exit_code' = 1
  /\ UNCHANGED <<outputs, resolved, i, built, out_file, writes, console>>

ReportWritten ==
  /\ pc = "written"
  /\ console' = Append(console, "Inventory written to " \o out_path)
  /\ pc' = "report"
  /\ i' = 0
  /\ UNCHANGED <<outputs, resolved, built, out_file, writes, exit_code>>

\* if warnings: print('\nWarnings:')
ReportHeader ==
  /\ pc = "report"
  /\ warnings # <<>>
  /\ console' = Append(console, "Warnings:")
  /\ pc' = "warn"
  /\ UNCHANGED <<outputs, resolved, i, built, out_file, writes, exit_code>>

\* for w in warnings: print('-', w)
ReportWarning ==
  /\ pc = "warn"
  /\ i < Len(warnings)
  /\ console' = Append(console, "- " \o warnings[i + 1])
  /\ i' = i + 1
  /\ UNCHANGED <<pc, outputs, resolved, built, out_file, writes, exit_code>>

\* main returns: the interpreter exits with status 0.
Finish ==
  /\ \/ pc = "report" /\ warnings = <<>>
     \/ pc = "warn" /\ i = Len(warnings)
  /\ exit_code' = 0
  /\ pc' = "exited"
  /\ UNCHANGED <<outputs, resolved, i, built, out_file, writes, console>>

Next ==
  \/ LoadOutputs
  \/ LoadError
  \/ Resolve
  \/ CpSkip
  \/ CpMissing
  \/ CpHost
  \/ CpReturn
  \/ WorkerSkip
  \/ WorkerMissing
  \/ WorkerHost
  \/ WorkerReturn
  \/ BastionNone
  \/ BastionListEntry
  \/ BastionListDone
  \/ BastionScalar
  \/ Merge
  \/ Groups
  \/ NoHosts
  \/ WriteInventory
  \/ WriteError
  \/ ReportWritten
  \/ ReportHeader
  \/ ReportWarning
  \/ Finish

Spec == Init /\ [][Next]_vars

(***************************************************************************)
(* What the specification says of a role's lists, stated on the lists      *)
(* themselves (positions counted from 1).                                  *)
(***************************************************************************)
ListLen(v) == IF v.t = "list" THEN Len(v.l) ELSE 0
RoleCount(names, ips) == Max(ListLen(names), ListLen(ips))
AddressAt(ips, k) == IF k <= ListLen(ips) THEN ips.l[k] ELSE Null
NameAt(names, prefix, k) ==
  IF k <= ListLen(names) THEN names.l[k].s ELSE prefix \o "-" \o ToString(k)

\* Names of the positions 1..n that have an address.
AddressedNames(names, ips, prefix, n) ==
  {NameAt(names, prefix, k) : k \in {j \in 1..n : AddressAt(ips, j) # Null}}

\* One warning per position of 1..n that has no address, in order.
RECURSIVE MissingWarnings(_, _, _, _)
MissingWarnings(names, ips, prefix, n) ==
  IF n = 0 THEN <<>>
  ELSE MissingWarnings(names, ips, prefix, n - 1)
       \o (IF AddressAt(ips, n) = Null
           THEN <<"Missing IP for host " \o NameAt(names, prefix, n)>>
           ELSE <<>>)

CountWarnings ==
  IF cp_ips = Null /\ "control_plane_count" \in DOMAIN outputs
  THEN <<CountWarning>> ELSE <<>>

CpCount == RoleCount(cp_names, cp_ips)
WorkerCount == RoleCount(worker_names, worker_ips)

AfterRoles == {"bastion", "merge", "groups", "returned", "written", "write_error",
               "report", "warn", "exited"}
AfterMerge == AfterRoles \ {"bastion", "merge"}
BuiltDone == AfterMerge \ {"groups"}

(***************************************************************************)
(* C1.  Every host of the collection build_hosts returns has a non-null    *)
(* address, whichever branch built it.                                     *)
(***************************************************************************)
C1_NoHostWithoutAddress ==
  pc \in BuiltDone =>
    \A n \in DOMAIN hosts : hosts[n].ansible_host # Null /\ hosts[n].ip # Null

(***************************************************************************)
(* C2.  In either role every position without an address adds no host and  *)
(* appends exactly one 'Missing IP for host {name}' warning; positions     *)
(* with an address append none; the loop goes on to the later positions.   *)
(* Stated at every point of the two loops: after i positions the warnings  *)
(* are those of the positions handled so far, and the role's hosts are the *)
(* names of the handled positions that have an address.                    *)
(***************************************************************************)
C2_MissingIpDropsAndWarnsOnce ==
  /\ pc = "cp" =>
       /\ warnings = CountWarnings \o MissingWarnings(cp_names, cp_ips, "k8s-cp", i)
       /\ DOMAIN cp_hosts = AddressedNames(cp_names, cp_ips, "k8s-cp", i)
       /\ i <= CpCount
  /\ pc = "worker" =>
       /\ warnings = CountWarnings
                     \o MissingWarnings(cp_names, cp_ips, "k8s-cp", CpCount)
                     \o MissingWarnings(worker_names, worker_ips, "k8s-worker", i)
       /\ DOMAIN worker_hosts = AddressedNames(worker_names, worker_ips, "k8s-worker", i)
       /\ i <= WorkerCount
  /\ pc \in AfterRoles =>
       /\ warnings = CountWarnings
                     \o MissingWarnings(cp_names, cp_ips, "k8s-cp", CpCount)
                     \o MissingWarnings(worker_names, worker_ips, "k8s-worker", WorkerCount)
       /\ DOMAIN cp_hosts = AddressedNames(cp_names, cp_ips, "k8s-cp", CpCount)
       /\ DOMAIN worker_hosts =
            AddressedNames(worker_names, worker_ips, "k8s-worker", WorkerCount)

\* Three address entries, null / address / null, and one name: one host is
\* built between two dropped positions, each of which warned once.
C2_Witness ==
  /\ pc = "returned"
  /\ cp_ips.t = "list" /\ Len(cp_ips.l) = 3
  /\ cp_ips.l[1] = Null /\ cp_ips.l[2] # Null /\ cp_ips.l[3] = Null
  /\ cp_names.t = "list" /\ Len(cp_names.l) = 1
  /\ DOMAIN cp_hosts = {"k8s-cp-2"}
  /\ warnings = <<"Missing IP for host " \o cp_names.l[1].s, "Missing IP for host k8s-cp-3">>

(***************************************************************************)
(* C3.  In the groups build_hosts returns, etcd exists exactly when        *)
(* kube_control_plane does, which is exactly when a control-plane host was *)
(* built, and then both hold the same host names.                          *)
(***************************************************************************)
C3_EtcdMirrorsControlPlane ==
  pc \in BuiltDone =>
    /\ ("etcd" \in DOMAIN groups) <=> ("kube_control_plane" \in DOMAIN groups)
    /\ ("kube_control_plane" \in DOMAIN groups) <=> (DOMAIN cp_hosts # {})
    /\ "etcd" \in DOMAIN groups /\ "kube_control_plane" \in DOMAIN groups =>
         /\ DOMAIN groups["etcd"] = {"hosts"}
         /\ groups["etcd"].hosts = groups["kube_control_plane"].hosts
         /\ groups["etcd"].hosts = DOMAIN cp_hosts

\* Two control-plane hosts and workers under other names.
C3_Witness ==
  /\ pc = "returned"
  /\ "etcd" \in DOMAIN groups
  /\ Cardinality(groups["etcd"].hosts) = 2
  /\ "kube_node" \in DOMAIN groups
  /\ groups["kube_node"].hosts # groups["etcd"].hosts

(***************************************************************************)
(* C4.  A role with N addresses, none null, and no names list or one of    *)
(* M <= N names.  The precondition, the names and the addresses:           *)
(***************************************************************************)
C4_Applies(names, ips) ==
  /\ ips.t = "list"
  /\ \A k \in 1..Len(ips.l) : ips.l[k] # Null
  /\ names = Null \/ (names.t = "list" /\ Len(names.l) <= Len(ips.l))

\* As claimed: exactly N hosts, the k-th named as said and carrying ips[k].
C4_AsClaimed(names, ips, prefix, group_hosts) ==
  C4_Applies(names, ips) =>
    /\ Cardinality(DOMAIN group_hosts) = Len(ips.l)
    /\ \A k \in 1..Len(ips.l) :
         /\ NameAt(names, prefix, k) \in DOMAIN group_hosts
         /\ group_hosts[NameAt(names, prefix, k)].ip = ips.l[k]
         /\ group_hosts[NameAt(names, prefix, k)].ansible_host = ips.l[k]

\* C4 as claimed, for both roles.  Refuted: two positions of one role can
\* get the same name, and then one host stands for both.
C4_ExactlyNHosts ==
  pc \in AfterRoles =>
    /\ C4_AsClaimed(cp_names, cp_ips, "k8s-cp", cp_hosts)
    /\ C4_AsClaimed(worker_names, worker_ips, "k8s-worker", worker_hosts)

\* The last position of 1..n that gets the name nm.
LastNamed(names, prefix, n, nm) ==
  CHOOSE k \in 1..n :
    /\ NameAt(names, prefix, k) = nm
    /\ \A j \in (k + 1)..n : NameAt(names, prefix, j) # nm

C4_Amended(names, ips, prefix, group_hosts) ==
  C4_Applies(names, ips) =>
    LET n == Len(ips.l)
        nameSet == {NameAt(names, prefix, k) : k \in 1..n}
    IN /\ DOMAIN group_hosts = nameSet
       /\ \A nm \in nameSet :
            LET h == group_hosts[nm]
                a == ips.l[LastNamed(names, prefix, n, nm)]
            IN h.ip = a /\ h.ansible_host = a /\ "access_ip" \notin DOMAIN h
       /\ (\A j, k \in 1..n : j # k => NameAt(names, prefix, j) # NameAt(names, prefix, k))
            => Cardinality(DOMAIN group_hosts) = n
       /\ names = Null => DOMAIN group_hosts = {prefix \o "-" \o ToString(k) : k \in 1..n}

(***************************************************************************)
(* C4 (amended).  The host of position k is named names[k] when k <= M and *)
(* {prefix}-{k} beyond, and carries addresses[k]; the role's hosts are     *)
(* keyed by these names: exactly N hosts when the N names are pairwise     *)
(* distinct (always so without a names list: {prefix}-1 .. {prefix}-N),    *)
(* and when several positions get one name, one host under that name,      *)
(* carrying the address of the last of them.                               *)
(***************************************************************************)
C4_HostsPerName ==
  pc \in AfterRoles =>
    /\ C4_Amended(cp_names, cp_ips, "k8s-cp", cp_hosts)
    /\ C4_Amended(worker_names, worker_ips, "k8s-worker", worker_hosts)

\* Three worker addresses and two names: three workers, the third synthesized.
C4_Witness ==
  /\ pc = "returned"
  /\ worker_ips.t = "list" /\ Len(worker_ips.l) = 3
  /\ worker_names.t = "list" /\ Len(worker_names.l) = 2
  /\ Cardinality(DOMAIN worker_hosts) = 3
  /\ "k8s-worker-3" \in DOMAIN worker_hosts
  /\ worker_hosts["k8s-worker-3"].ip = worker_ips.l[3]

(***************************************************************************)
(* C5.  With a list-valued bastion private address there is one host       *)
(* bastion-{k} per entry, and its access address is the k-th public entry  *)
(* if the public value is a list of at least k entries, and absent in      *)
(* every other case.  Stated when the bastion branch has finished, before  *)
(* the other roles are merged in.                                          *)
(***************************************************************************)
C5_BastionListAccess ==
  pc = "merge" /\ bastion_priv.t = "list" =>
    /\ DOMAIN hosts = {"bastion-" \o ToString(k) : k \in 1..Len(bastion_priv.l)}
    /\ \A k \in 1..Len(bastion_priv.l) :
         LET h == hosts["bastion-" \o ToString(k)]
         IN /\ h.ip = bastion_priv.l[k]
            /\ h.access_ip = IF bastion_pub.t = "list" /\ k <= Len(bastion_pub.l)
                             THEN bastion_pub.l[k] ELSE Null

(***************************************************************************)
(* C6.  The collection is the bastion hosts, then the control-plane hosts, *)
(* then the worker hosts, the later role winning a name; every name any    *)
(* role produced is a key; a collision adds no warning.                    *)
(***************************************************************************)
BastionCount ==
  IF bastion_priv.t = "list" THEN Len(bastion_priv.l)
  ELSE IF bastion_priv.t = "str" /\ bastion_priv.s # "" THEN 1 ELSE 0

BastionNames == {"bastion-" \o ToString(k) : k \in 1..BastionCount}

BastionAddress(k) == IF bastion_priv.t = "list" THEN bastion_priv.l[k] ELSE bastion_priv

C6_MergeLastWriteWins ==
  pc \in AfterMerge =>
    /\ DOMAIN hosts = BastionNames \cup DOMAIN cp_hosts \cup DOMAIN worker_hosts
    /\ \A n \in DOMAIN worker_hosts : hosts[n] = worker_hosts[n]
    /\ \A n \in DOMAIN cp_hosts \ DOMAIN worker_hosts : hosts[n] = cp_hosts[n]
    /\ \A k \in 1..BastionCount :
         LET n == "bastion-" \o ToString(k)
         IN n \notin DOMAIN cp_hosts \cup DOMAIN worker_hosts =>
              "access_ip" \in DOMAIN hosts[n] /\ hosts[n].ip = BastionAddress(k)
    /\ warnings = CountWarnings
                  \o MissingWarnings(cp_names, cp_ips, "k8s-cp", CpCount)
                  \o MissingWarnings(worker_names, worker_ips, "k8s-worker", WorkerCount)

\* One name built by all three roles, with three different addresses.
C6_Witness ==
  /\ pc = "returned"
  /\ "bastion-1" \in BastionNames
  /\ "bastion-1" \in DOMAIN cp_hosts
  /\ "bastion-1" \in DOMAIN worker_hosts
  /\ cp_hosts["bastion-1"] # worker_hosts["bastion-1"]
  /\ hosts["bastion-1"] = worker_hosts["bastion-1"]
  /\ warnings = <<>>

(***************************************************************************)
(* C7.  The groups always hold k8s_cluster; it has children and no hosts   *)
(* entry; its children are kube_control_plane and kube_node, each exactly  *)
(* when it was created as a group, which is exactly when a host of that    *)
(* role was built.                                                         *)
(***************************************************************************)
C7_ClusterAlwaysComposite ==
  pc \in BuiltDone =>
    /\ "k8s_cluster" \in DOMAIN groups
    /\ DOMAIN groups["k8s_cluster"] = {"children"}
    /\ groups["k8s_cluster"].children =
         {g \in {"kube_control_plane", "kube_node"} : g \in DOMAIN groups}
    /\ ("kube_control_plane" \in DOMAIN groups) <=> (DOMAIN cp_hosts # {})
    /\ ("kube_node" \in DOMAIN groups) <=> (DOMAIN worker_hosts # {})

\* No host at all: the run ends with status 2 and k8s_cluster is childless.
C7_Witness ==
  /\ pc = "exited" /\ exit_code = 2
  /\ DOMAIN hosts = {}
  /\ DOMAIN groups = {"k8s_cluster"}
  /\ groups["k8s_cluster"].children = {}

Printed(w) == \E j \in 1..Len(console) : console[j] = "- " \o w

C9_WarningsSurfacedAtExit ==
  pc = "exited" => \A j \in 1..Len(warnings) : Printed(warnings[j])

(***************************************************************************)
(* C10.  Each logical input resolves to the value under the first of its   *)
(* documented aliases that is a key of the outputs.                        *)
(***************************************************************************)
DocCpNames == <<"control_plane_names", "control_plane_node_names", "cp_names">>
DocCpIps == <<"control_plane_ips", "control_plane_private_ips", "cp_ips">>
DocWorkerNames == <<"worker_names", "worker_node_names">>
DocWorkerIps == <<"worker_ips", "worker_private_ips">>
DocBastionPriv == <<"bastion_private_ip", "bastion_private_ips">>
DocBastionPub == <<"bastion_public_ip", "bastion_public_ips">>

AnyPresent(aliases) == \E j \in 1..Len(aliases) : aliases[j] \in DOMAIN outputs

FirstPresent(aliases) ==
  aliases[CHOOSE j \in 1..Len(aliases) :
            /\ aliases[j] \in DOMAIN outputs
            /\ \A h \in 1..(j - 1) : aliases[h] \notin DOMAIN outputs]

\* As claimed: the first present alias's value, and absent only when no
\* alias is a key.
C10_AsClaimed(aliases, value) ==
  /\ AnyPresent(aliases) => value = outputs[FirstPresent(aliases)]
  /\ value = Null => ~AnyPresent(aliases)

\* C10 as claimed.  Refuted: a key present with a null value resolves to
\* None, which the builder cannot tell from a missing key.
C10_AbsentOnlyWhenNoAlias ==
  pc \in {"cp", "worker"} \cup AfterRoles =>
    /\ C10_AsClaimed(DocCpNames, cp_names)
    /\ C10_AsClaimed(DocCpIps, cp_ips)
    /\ C10_AsClaimed(DocWorkerNames, worker_names)
    /\ C10_AsClaimed(DocWorkerIps, worker_ips)
    /\ C10_AsClaimed(DocBastionPriv, bastion_priv)
    /\ C10_AsClaimed(DocBastionPub, bastion_pub)

C10_Amended(aliases, value) ==
  /\ AnyPresent(aliases) => value = outputs[FirstPresent(aliases)]
  /\ value = Null <=> (~AnyPresent(aliases) \/ outputs[FirstPresent(aliases)] = Null)

(***************************************************************************)
(* C10 (amended).  Each logical input resolves to the value under the      *)
(* first of its documented aliases that is a key of the outputs, later     *)
(* aliases being ignored; it is absent when no alias is a key, and also    *)
(* when the first alias that is a key carries null.                        *)
(***************************************************************************)
C10_FirstAliasWins ==
  pc \in {"cp", "worker"} \cup AfterRoles =>
    /\ C10_Amended(DocCpNames, cp_names)
    /\ C10_Amended(DocCpIps, cp_ips)
    /\ C10_Amended(DocWorkerNames, worker_names)
    /\ C10_Amended(DocWorkerIps, worker_ips)
    /\ C10_Amended(DocBastionPriv, bastion_priv)
    /\ C10_Amended(DocBastionPub, bastion_pub)

\* The second and third control-plane address aliases both present with
\* different values, the first not: the second one's hosts are built.
C10_Witness ==
  /\ pc = "returned"
  /\ "control_plane_ips" \notin DOMAIN outputs
  /\ "control_plane_private_ips" \in DOMAIN outputs
  /\ "cp_ips" \in DOMAIN outputs
  /\ outputs["cp_ips"] # outputs["control_plane_private_ips"]
  /\ outputs["cp_ips"] # Null
  /\ cp_ips = outputs["control_plane_private_ips"]
  /\ cp_ips # Null
  /\ cp_hosts["k8s-cp-1"].ip = outputs["control_plane_private_ips"].l[1]

====
